---------------------------- MODULE Spec2Model ----------------------------
(***************************************************************************)
(* A model of the music search bot: the scraping client of                 *)
(* music_service.py (Track, Music, the tenacity retry policy around        *)
(* _parse_tracks and get_audio_bytes, build_search_query) and the chat     *)
(* handlers of handlers.py that use it.                                    *)
(*                                                                         *)
(* Text is modelled as a sequence of one-character strings, so that        *)
(* re.sub, strip, lower and replace are computed character by character.   *)
(* An optional value (Python's None or a value) is a sequence of length    *)
(* at most one: <<>> is None, <<v>> is the value v.                        *)
(***************************************************************************)
EXTENDS Integers, Sequences, FiniteSets, TLC

VARIABLES
    music,          \* the Music instances: client id -> state of the instance
    keyword,        \* QuerySpec: the keyword handed to build_search_query
    query_url,      \* QuerySpec: <<>> or <<the url build_search_query returned>>
    page,           \* ParseSpec: the fetched page handed to the parser
    parsed,         \* ParseSpec: <<>> or <<the outcome of parsing `page`>>
    tasks,          \* HandlerSpec: the handler each task runs and where it stands
    search_history, \* HandlerSpec: the module-level dict of handlers.py
    keyboards,      \* HandlerSpec: the buttons of the keyboards sent so far
    original,       \* DictSpec: <<>> or <<the Track whose fields are handed to from_dict>>
    restored,       \* DictSpec: <<>> or <<the Track from_dict returned>>
    closing         \* SharedSpec: the disconnect calls suspended in session.close()

vars == <<music, keyword, query_url, page, parsed, tasks, search_history, keyboards,
          original, restored, closing>>

\* the state only DictSpec changes, and the state only SharedSpec changes
dict_vars == <<original, restored>>
shared_vars == <<closing>>

\* the state of the chat handlers, which only HandlerSpec changes
handler_vars == <<tasks, search_history, keyboards>>

-----------------------------------------------------------------------------
(* Bounds of the model.                                                    *)

MaxKeywordLen == 4
MaxItems == 3
MaxSessions == 2
MaxPageItems == 2
MaxTasks == 2

-----------------------------------------------------------------------------
(* Characters and text.                                                    *)

\* str.isspace / the class \s of re
Whitespace == {" ", "\t"}
\* characters that are neither \w nor \s
Punctuation == {"!", "-", "."}
\* \w characters outside ASCII
NonAscii == {"é"}
\* str.lower, character by character
lower_char(c) ==
    CASE c = "D" -> "d"
      [] c = "P" -> "p"
      [] c = "B" -> "b"
      [] OTHER -> c

BoundedSeq(S, n) == UNION {[1..k -> S] : k \in 0..n}

\* str.lower
lower(s) == [i \in 1..Len(s) |-> lower_char(s[i])]

RECURSIVE lstrip(_)
lstrip(s) ==
    IF s = <<>> THEN <<>>
    ELSE IF Head(s) \in Whitespace THEN lstrip(Tail(s)) ELSE s

RECURSIVE rstrip(_)
rstrip(s) ==
    IF s = <<>> THEN <<>>
    ELSE IF s[Len(s)] \in Whitespace THEN rstrip(SubSeq(s, 1, Len(s) - 1)) ELSE s

\* str.strip()
strip(s) == rstrip(lstrip(s))

\* str.replace(old, new) for one-character old and new
replace(s, old, new) == [i \in 1..Len(s) |-> IF s[i] = old THEN new ELSE s[i]]

\* re.sub(r"[^\w\s]", "", keyword)
re_sub_nonword(s) == SelectSeq(s, LAMBDA c : c \notin Punctuation)

-----------------------------------------------------------------------------
(* Music.build_search_query.                                               *)

BASE_URL == "vuxo7.com"

\* the longest label the idna codec accepts is one shorter than this
IdnaLabelLimit == 64

\* punycode of a label with a non-ASCII character: the basic (ASCII)
\* characters in order, a delimiter when there are any, then the encoded
\* deltas of the others, kept as one opaque token
punycode(label) ==
    LET basic == SelectSeq(label, LAMBDA c : c \notin NonAscii)
    IN  basic \o (IF basic = <<>> THEN <<>> ELSE <<"-">>) \o <<"<deltas>">>

\* query.encode("idna").decode("ascii"): [exc, value]
idna_encode(query) ==
    IF query = <<>> THEN [exc |-> "none", value |-> <<>>]
    ELSE IF \A i \in 1..Len(query) : query[i] \notin NonAscii
    THEN \* ASCII fast path: the label is returned as it is, if short enough
         IF Len(query) >= IdnaLabelLimit
         THEN [exc |-> "UnicodeError", value |-> <<>>]
         ELSE [exc |-> "none", value |-> query]
    ELSE LET ace == <<"xn--">> \o punycode(query)
         IN  IF Len(ace) + 3 >= IdnaLabelLimit
             THEN [exc |-> "UnicodeError", value |-> <<>>]
             ELSE [exc |-> "none", value |-> ace]

\* the slug build_search_query computes before the idna step
query_slug(kw) == replace(lower(strip(re_sub_nonword(kw))), " ", "-")

build_search_query(kw) ==
    LET query == query_slug(kw)
        enc == idna_encode(query)
        subdomain == IF enc.exc = "UnicodeError" THEN query ELSE enc.value
    IN  <<"https://">> \o subdomain \o <<".", BASE_URL>>


-----------------------------------------------------------------------------
(* Track and the markup it is built from.                                  *)
(*                                                                         *)
(* A page is [playlist |-> <<>> or <<items>>]: what                        *)
(* soup.find("ul", class_="playlist") finds, and the <li> elements         *)
(* find_all("li") enumerates in document order.  An item is                *)
(* [artist, title, play]: what element.find finds for the classes          *)
(* playlist-name-artist, playlist-name-title and playlist-play.  artist    *)
(* and title are <<>> or <<text>>; play is <<>> or <<attr>>, where attr    *)
(* is <<>> (no data-url attribute) or <<url>>.                             *)

ArtistTexts == {<<" ", "a">>}
TitleTexts == {<<"B", " ">>}
AudioUrls == {"u1"}

Option(S) == {<<>>} \cup {<<v>> : v \in S}

Items == [artist : Option(ArtistTexts), title : Option(TitleTexts),
          play : Option(Option(AudioUrls))]

Pages == {[playlist |-> <<>>]} \cup
         {[playlist |-> <<items>>] : items \in BoundedSeq(Items, MaxItems)}

\* the Track dataclass
Track(index, name, title, performer, audio_url) ==
    [index |-> index, name |-> name, title |-> title,
     performer |-> performer, audio_url |-> audio_url]

\* int(x) for an int x
int(x) == x

\* a from_dict that takes the title for the performer and the performer
\* for the title
from_dict_swapped(data) ==
    Track(int(data["index"]), data["name"], data["performer"], data["title"],
          data["audio_url"])

\* Track.from_dict
from_dict(data) ==
    Track(int(data["index"]), data["name"], data["title"], data["performer"],
          data["audio_url"])

\* a from_element that numbers the tracks from one
from_element_from_one(element, index) ==
    IF element.artist = <<>> \/ element.title = <<>>
    THEN [exc |-> "ValueError", track |-> <<>>]
    ELSE IF element.play = <<>>
    THEN [exc |-> "TypeError", track |-> <<>>]
    ELSE LET performer == strip(element.artist[1])
             title == strip(element.title[1])
             attr == element.play[1]
         IN  [exc |-> "none",
              track |-> <<Track(index + 1, performer \o <<" ", "-", " ">> \o title,
                                title, performer,
                                IF attr = <<>> THEN "" ELSE attr[1])>>]

\* Track.from_element: [exc, track]
from_element(element, index) ==
    IF element.artist = <<>> \/ element.title = <<>>
    THEN [exc |-> "ValueError", track |-> <<>>]
    ELSE LET performer == strip(element.artist[1])
             title == strip(element.title[1])
             full_name == performer \o <<" ", "-", " ">> \o title
         IN  IF element.play = <<>>
             THEN [exc |-> "TypeError", track |-> <<>>]
             ELSE LET attr == element.play[1]
                      audio_url == IF attr = <<>> THEN "" ELSE attr[1]
                  IN  [exc |-> "none",
                       track |-> <<Track(index, full_name, title, performer, audio_url)>>]

\* a list comprehension that skips the items that raise
RECURSIVE track_list_skipping(_, _, _)
track_list_skipping(items, index, tracks) ==
    IF index >= Len(items) THEN [exc |-> "none", tracks |-> tracks]
    ELSE LET t == from_element(items[index + 1], index)
         IN  track_list_skipping(items, index + 1, tracks \o t.track)

\* the list comprehension of _parse_tracks over enumerate(find_all("li")):
\* items from position `index` on, appended to the tracks built so far; the
\* first item that raises ends the comprehension and nothing is returned
RECURSIVE track_list(_, _, _)
track_list(items, index, tracks) ==
    IF index >= Len(items) THEN [exc |-> "none", tracks |-> tracks]
    ELSE LET t == from_element(items[index + 1], index)
         IN  IF t.exc # "none" THEN [exc |-> t.exc, tracks |-> <<>>]
             ELSE track_list(items, index + 1, tracks \o t.track)

\* the parse step of _parse_tracks on the text of a response: [exc, tracks]
parse_html(html) ==
    IF html.playlist = <<>>
    THEN [exc |-> "TypeError", tracks |-> <<>>]
    ELSE track_list(html.playlist[1], 0, <<>>)

-----------------------------------------------------------------------------
(* The Music client.                                                       *)
(*                                                                         *)
(* A Music instance is a record.  session is self._session: None or the    *)
(* id of an aiohttp.ClientSession; created counts the sessions the         *)
(* instance has constructed and open holds those not yet closed.  The      *)
(* other fields follow the call in progress (or the last one finished):    *)
(* op and arg name it, connected0 tells whether a session was active when  *)
(* it was invoked, pc is where it stands ("idle", "attempt" or "sleep"),   *)
(* attempt is tenacity's attempt_number, waits the backoff waits slept,    *)
(* requests the requests sent to the server, reads the bodies read from    *)
(* responses, log the outcome of each attempt, last the response of the    *)
(* latest attempt, and result what reached the caller.                     *)

None == 0

\* 50 * 1024 * 1024
max_size == 52428800

\* @retry(stop=stop_after_attempt(3),
\*        wait=wait_exponential(multiplier=1, min=1, max=5))
stop_after_attempt == 3
wait_multiplier == 1
wait_min == 1
wait_max == 5

NoResult == [kind |-> "none", cause |-> "none", value |-> <<>>]

Music ==
    [session |-> None, created |-> 0, open |-> {},
     op |-> "none", arg |-> <<>>, connected0 |-> FALSE, pc |-> "idle",
     attempt |-> 0, waits |-> <<>>, requests |-> 0, reads |-> 0,
     log |-> <<>>, last |-> <<>>, result |-> NoResult]

\* a connect that opens a session whether or not one is active
connect_again(self) ==
    [self EXCEPT !.session = self.created + 1,
                 !.created = self.created + 1,
                 !.open = self.open \cup {self.created + 1}]

\* Music.connect
connect(self) ==
    IF self.session = None
    THEN [self EXCEPT !.session = self.created + 1,
                      !.created = self.created + 1,
                      !.open = self.open \cup {self.created + 1}]
    ELSE self

\* await self._session.close()
session_close(self) == [self EXCEPT !.open = self.open \ {self.session}]

\* self._session = None
session_clear(self) == [self EXCEPT !.session = None]

\* a disconnect that closes the session and keeps the handle
disconnect_keeps_handle(self) ==
    IF self.session # None THEN session_close(self) ELSE self

\* Music.disconnect, when close() returns without suspending
disconnect(self) ==
    IF self.session # None
    THEN [session_close(self) EXCEPT !.session = None]
    ELSE self

\* the call `op` is invoked with `arg`: nothing of an earlier call is kept
invoked(self, op, arg) ==
    [self EXCEPT !.op = op, !.arg = arg, !.connected0 = (self.session # None),
                 !.pc = "idle", !.attempt = 0, !.waits = <<>>, !.requests = 0,
                 !.reads = 0, !.log = <<>>, !.last = <<>>, !.result = NoResult]

\* the first call of a function wrapped by @retry
retry_begin(self) == [self EXCEPT !.pc = "attempt", !.attempt = 1]

\* a search without its own session check
search_unchecked(self, kw) ==
    retry_begin(invoked(self, "search", <<build_search_query(kw)>>))

\* Music.search, up to its call of _parse_tracks
search(self, kw) ==
    LET call == invoked(self, "search", <<build_search_query(kw)>>)
    IN  IF self.session = None
        THEN [call EXCEPT !.result = [kind |-> "MusicServiceError",
                                      cause |-> "no_session", value |-> <<>>]]
        ELSE retry_begin(call)

\* Music.get_top_hits, up to its call of _parse_tracks
get_top_hits(self) ==
    retry_begin(invoked(self, "get_top_hits", <<<<"https://", BASE_URL>>>>))

\* Music.get_audio_bytes is itself the wrapped function
get_audio_bytes(self, track) ==
    retry_begin(invoked(self, "get_audio_bytes", <<track>>))

(* What the server answers to one request.  net is "ok" when a response    *)
(* arrives, "timeout" for TimeoutError and "connerr" for a connection      *)
(* failure (an aiohttp.ClientError); status is the HTTP status; page is    *)
(* the markup of the body and content_length the advertised length (<<>>   *)
(* when the header is absent); body_ok tells whether reading the body      *)
(* succeeds and body is what is read.                                      *)
Response(net, status, html, content_length, body_ok, body) ==
    [net |-> net, status |-> status, page |-> html,
     content_length |-> content_length, body_ok |-> body_ok, body |-> body]

\* response.raise_for_status() raises for a status of 400 and above
raises_for_status(resp) == resp.status >= 400

\* one attempt outcome: the exception raised ("none" when the attempt
\* returns), the event behind it, the value returned, and whether a request
\* was sent and a body read
Outcome(exc, event, value, sent, read) ==
    [exc |-> exc, event |-> event, value |-> value, sent |-> sent, read |-> read]

\* the body of _parse_tracks, once, against the response `resp`
parse_tracks_once(self, resp) ==
    IF self.session = None
    THEN Outcome("MusicServiceError", "no_session", <<>>, 0, 0)
    ELSE IF self.session \notin self.open
    THEN \* get on a closed session raises RuntimeError, which is not caught
         Outcome("RuntimeError", "session_closed", <<>>, 0, 0)
    ELSE IF resp.net # "ok"
    THEN Outcome("MusicServiceError", resp.net, <<>>, 1, 0)
    ELSE IF raises_for_status(resp)
    THEN Outcome("MusicServiceError", "status", <<>>, 1, 0)
    ELSE IF ~resp.body_ok
    THEN Outcome("MusicServiceError", "readerr", <<>>, 1, 1)
    ELSE LET p == parse_html(resp.page)
         IN  IF p.exc # "none"
             THEN Outcome(p.exc, "parse", <<>>, 1, 1)
             ELSE Outcome("none", "ok", <<p.tracks>>, 1, 1)

\* the body of get_audio_bytes, once, against the response `resp`
get_audio_bytes_once(self, resp) ==
    IF self.session = None
    THEN Outcome("MusicServiceError", "no_session", <<>>, 0, 0)
    ELSE IF self.session \notin self.open
    THEN \* get on a closed session raises RuntimeError, which is not caught
         Outcome("RuntimeError", "session_closed", <<>>, 0, 0)
    ELSE IF self.arg[1].audio_url = ""
    THEN \* session.get("") raises InvalidURL, a ClientError, before any request
         Outcome("MusicServiceError", "invalid_url", <<>>, 0, 0)
    ELSE IF resp.net # "ok"
    THEN Outcome("MusicServiceError", resp.net, <<>>, 1, 0)
    ELSE IF raises_for_status(resp)
    THEN Outcome("MusicServiceError", "status", <<>>, 1, 0)
    ELSE IF resp.content_length # <<>> /\ resp.content_length[1] # 0
            /\ resp.content_length[1] > max_size
    THEN Outcome("MusicServiceError", "too_large", <<>>, 1, 0)
    ELSE IF ~resp.body_ok
    THEN Outcome("MusicServiceError", "readerr", <<>>, 1, 1)
    ELSE Outcome("none", "ok", <<resp.body>>, 1, 1)

RECURSIVE pow2(_)
pow2(n) == IF n <= 0 THEN 1 ELSE 2 * pow2(n - 1)

Max(a, b) == IF a >= b THEN a ELSE b
Min(a, b) == IF a <= b THEN a ELSE b

\* a backoff whose first wait is already doubled
wait_exponential_doubled(attempt_number) ==
    Max(Max(0, wait_min), Min(wait_multiplier * pow2(attempt_number), wait_max))

\* tenacity.wait_exponential(multiplier, min, max) with exp_base 2
wait_exponential(attempt_number) ==
    Max(Max(0, wait_min), Min(wait_multiplier * pow2(attempt_number - 1), wait_max))

\* a stop that allows one attempt more
stop_after_four(attempt_number) == attempt_number >= stop_after_attempt + 1

\* tenacity.stop_after_attempt
stop(attempt_number) == attempt_number >= stop_after_attempt

\* a wrapper that retries MusicServiceError alone and lets any other
\* exception through at once
retry_after_service_only(self, resp, out) ==
    LET seen == [self EXCEPT !.requests = self.requests + out.sent,
                             !.reads = self.reads + out.read,
                             !.log = Append(self.log, [exc |-> out.exc, event |-> out.event]),
                             !.last = <<resp>>]
    IN  IF out.exc = "none"
        THEN [seen EXCEPT !.pc = "idle",
                          !.result = [kind |-> "ok", cause |-> "none", value |-> out.value]]
        ELSE IF out.exc # "MusicServiceError"
        THEN [seen EXCEPT !.pc = "idle",
                          !.result = [kind |-> out.exc, cause |-> out.exc, value |-> <<>>]]
        ELSE IF stop(self.attempt)
        THEN [seen EXCEPT !.pc = "idle",
                          !.result = [kind |-> "RetryError", cause |-> out.exc, value |-> <<>>]]
        ELSE [seen EXCEPT !.pc = "sleep"]

\* the @retry wrapper after one attempt of the wrapped function ended in
\* `out`: a returned value is returned; an exception (of any type) is
\* retried after the wait, until stop says so, and then RetryError is raised
\* (reraise is left at False)
retry_after(self, resp, out) ==
    LET seen == [self EXCEPT !.requests = self.requests + out.sent,
                             !.reads = self.reads + out.read,
                             !.log = Append(self.log, [exc |-> out.exc, event |-> out.event]),
                             !.last = <<resp>>]
    IN  IF out.exc = "none"
        THEN [seen EXCEPT !.pc = "idle",
                          !.result = [kind |-> "ok", cause |-> "none", value |-> out.value]]
        ELSE IF stop(self.attempt)
        THEN [seen EXCEPT !.pc = "idle",
                          !.result = [kind |-> "RetryError", cause |-> out.exc, value |-> <<>>]]
        ELSE [seen EXCEPT !.pc = "sleep"]

\* one attempt of the call in progress
attempt_once(self, resp) ==
    IF self.op = "get_audio_bytes"
    THEN retry_after(self, resp, get_audio_bytes_once(self, resp))
    ELSE retry_after(self, resp, parse_tracks_once(self, resp))

\* the wrapper sleeps wait(attempt_number) and calls the function again
sleep(self) ==
    [self EXCEPT !.pc = "attempt",
                 !.waits = Append(self.waits, wait_exponential(self.attempt)),
                 !.attempt = self.attempt + 1]

-----------------------------------------------------------------------------
(* QuerySpec: build_search_query applied to every keyword over the         *)
(* alphabet, up to MaxKeywordLen characters.                               *)

KeywordAlphabet == {"D", "a", " ", "\t", "!", "é"}
Keywords == BoundedSeq(KeywordAlphabet, MaxKeywordLen)

\* what the two specifications of pure functions leave alone
NoClients == [c \in {} |-> 0]
NoHandlers ==
    /\ tasks = <<>>
    /\ search_history = <<>>
    /\ keyboards = {}
    /\ original = <<>>
    /\ restored = <<>>
    /\ closing = 0

QueryInit ==
    /\ keyword \in Keywords
    /\ query_url = <<>>
    /\ page = [playlist |-> <<>>]
    /\ parsed = <<>>
    /\ music = NoClients
    /\ NoHandlers

BuildQuery ==
    /\ query_url = <<>>
    /\ query_url' = <<build_search_query(keyword)>>
    /\ UNCHANGED <<keyword, page, parsed, music, handler_vars, dict_vars, shared_vars>>

QuerySpec == QueryInit /\ [][BuildQuery]_vars

-----------------------------------------------------------------------------
(* ParseSpec: the parse step applied to every page of at most MaxItems     *)
(* items.                                                                  *)

ParseInit ==
    /\ page \in Pages
    /\ parsed = <<>>
    /\ keyword = <<>>
    /\ query_url = <<>>
    /\ music = NoClients
    /\ NoHandlers

ParsePage ==
    /\ parsed = <<>>
    /\ parsed' = <<parse_html(page)>>
    /\ UNCHANGED <<page, keyword, query_url, music, handler_vars, dict_vars, shared_vars>>

ParseSpec == ParseInit /\ [][ParsePage]_vars

-----------------------------------------------------------------------------
(* Spec: one Music instance under any sequence of connect, disconnect,     *)
(* search, get_top_hits and get_audio_bytes calls made one after the       *)
(* other, against a server that may answer each request in any way.        *)

GoodItem == [artist |-> << <<" ", "a">> >>, title |-> << <<"B", " ">> >>,
             play |-> << <<"u1">> >>]
NoTitleItem == [GoodItem EXCEPT !.title = <<>>]
NoPlayItem == [GoodItem EXCEPT !.play = <<>>]
NoDataUrlItem == [GoodItem EXCEPT !.play = << <<>> >>]

NoPage == [playlist |-> <<>>]

\* the items the server's pages are made of: a well-formed one, one whose
\* play control has no data-url, and two malformed ones
SampleItems == {GoodItem, NoDataUrlItem, NoTitleItem, NoPlayItem}

SamplePages ==
    {NoPage} \cup
    {[playlist |-> <<items>>] : items \in BoundedSeq(SampleItems, MaxPageItems)}

SampleKeywords == { <<"D", "a", " ", "D">>, <<"!", "!">> }

\* the tracks a caller may ask the audio of: those of a parsed page
SampleTracks ==
    LET p == parse_html([playlist |-> << <<GoodItem, NoDataUrlItem>> >>])
    IN  {p.tracks[i] : i \in 1..Len(p.tracks)}

ContentLengths == Option({0, 1024, max_size, max_size + 1, 60000000})
Bodies == {"audio"}

NetFailures ==
    { Response(net, 0, NoPage, <<>>, FALSE, "") : net \in {"timeout", "connerr"} }

PageResponses ==
    NetFailures
    \cup { Response("ok", 404, NoPage, <<>>, TRUE, "") }
    \cup { Response("ok", 200, NoPage, <<>>, FALSE, "") }
    \cup { Response("ok", 200, p, <<>>, TRUE, "") : p \in SamplePages }

AudioResponses ==
    NetFailures
    \cup { Response("ok", 404, NoPage, <<>>, TRUE, "") }
    \cup { Response("ok", 200, NoPage, n, ok, b) :
             n \in ContentLengths, ok \in BOOLEAN, b \in Bodies }

Responses(op) == IF op = "get_audio_bytes" THEN AudioResponses ELSE PageResponses

DriverClients == {1}

Init ==
    /\ music = [c \in DriverClients |-> Music]
    /\ keyword = <<>>
    /\ query_url = <<>>
    /\ page = NoPage
    /\ parsed = <<>>
    /\ NoHandlers

pure == <<keyword, query_url, page, parsed, dict_vars>>

Idle(c) == music[c].pc = "idle"

Connect(c) ==
    /\ Idle(c)
    /\ music[c].session # None \/ music[c].created < MaxSessions
    /\ music' = [music EXCEPT ![c] = connect(@)]
    /\ UNCHANGED <<pure, handler_vars, shared_vars>>

Disconnect(c) ==
    /\ Idle(c)
    /\ music' = [music EXCEPT ![c] = disconnect(@)]
    /\ UNCHANGED <<pure, handler_vars, shared_vars>>

Search(c) ==
    /\ Idle(c)
    /\ \E kw \in SampleKeywords : music' = [music EXCEPT ![c] = search(@, kw)]
    /\ UNCHANGED <<pure, handler_vars, shared_vars>>

GetTopHits(c) ==
    /\ Idle(c)
    /\ music' = [music EXCEPT ![c] = get_top_hits(@)]
    /\ UNCHANGED <<pure, handler_vars, shared_vars>>

GetAudioBytes(c) ==
    /\ Idle(c)
    /\ \E track \in SampleTracks : music' = [music EXCEPT ![c] = get_audio_bytes(@, track)]
    /\ UNCHANGED <<pure, handler_vars, shared_vars>>

Attempt(c) ==
    /\ music[c].pc = "attempt"
    /\ \E resp \in Responses(music[c].op) :
           music' = [music EXCEPT ![c] = attempt_once(@, resp)]
    /\ UNCHANGED <<pure, handler_vars, shared_vars>>

Sleep(c) ==
    /\ music[c].pc = "sleep"
    /\ music' = [music EXCEPT ![c] = sleep(@)]
    /\ UNCHANGED <<pure, handler_vars, shared_vars>>

Next ==
    \E c \in DriverClients :
        \/ Connect(c)
        \/ Disconnect(c)
        \/ Search(c)
        \/ GetTopHits(c)
        \/ GetAudioBytes(c)
        \/ Attempt(c)
        \/ Sleep(c)

Spec == Init /\ [][Next]_vars

-----------------------------------------------------------------------------
(* Properties of the client, checked under Spec.                           *)

\* a call has been made on m and has ended
Finished(m) == m.op # "none" /\ m.pc = "idle"

\* every attempt of the call on m ended in an exception
AllAttemptsFailed(m) == \A i \in 1..Len(m.log) : m.log[i].exc # "none"

RECURSIVE Sum(_)
Sum(seq) == IF seq = <<>> THEN 0 ELSE Head(seq) + Sum(Tail(seq))

\* C1: search on a client that is Disconnected when it is invoked (never
\* connected, or disconnected after being connected) fails at once with
\* MusicServiceError: no attempt is made and no request is sent.
C1_SearchWithoutSession ==
    \A c \in DOMAIN music :
        LET m == music[c]
        IN  (m.op = "search" /\ ~m.connected0) =>
                /\ m.pc = "idle"
                /\ m.result.kind = "MusicServiceError"
                /\ m.requests = 0
                /\ m.log = <<>>

\* a search that failed on a client disconnected after having been connected
C1_Witness ==
    \E c \in DOMAIN music :
        /\ music[c].op = "search" /\ ~music[c].connected0
        /\ music[c].created >= 1
        /\ music[c].result.kind = "MusicServiceError"

\* C2 (as claimed): get_top_hits and get_audio_bytes invoked on a
\* Disconnected client end with MusicServiceError reaching the caller, and
\* no request is sent.
C2_NoSessionContract ==
    \A c \in DOMAIN music :
        LET m == music[c]
        IN  (m.op \in {"get_top_hits", "get_audio_bytes"} /\ ~m.connected0 /\ Finished(m)) =>
                /\ m.result.kind = "MusicServiceError"
                /\ m.requests = 0

\* C3 (as claimed): when every attempt of a call on a Connected client has
\* failed and the retries are exhausted, the error that reaches the caller
\* is MusicServiceError.
C3_OnlyServiceErrorEscapes ==
    \A c \in DOMAIN music :
        LET m == music[c]
        IN  (m.connected0 /\ Finished(m) /\ m.log # <<>> /\ AllAttemptsFailed(m)) =>
                m.result.kind = "MusicServiceError"

\* the value the wrapped function returns for the response resp
ValueOf(op, resp) ==
    IF op = "get_audio_bytes" THEN <<resp.body>> ELSE <<parse_html(resp.page).tracks>>

\* attempts 1 and 2 of the call on m timed out and attempt 3 returned
TwoTimeoutsThenSuccess(m) ==
    /\ Finished(m) /\ Len(m.log) = 3
    /\ m.log[1].event = "timeout" /\ m.log[2].event = "timeout"
    /\ m.log[3].exc = "none"

\* C4: a call whose fetch times out on attempts 1 and 2 and succeeds on
\* attempt 3 returns what the third response holds, after a wait of 1 and
\* then a wait of 2 (3 in all) and exactly three requests.
C4_ThirdAttemptSucceeds ==
    \A c \in DOMAIN music :
        LET m == music[c]
        IN  TwoTimeoutsThenSuccess(m) =>
                /\ m.result.kind = "ok"
                /\ m.result.value = ValueOf(m.op, m.last[1])
                /\ m.waits = <<1, 2>>
                /\ Sum(m.waits) >= 1 + 2
                /\ m.requests = 3

\* a search that returned two tracks on its third attempt
C4_Witness ==
    \E c \in DOMAIN music :
        /\ TwoTimeoutsThenSuccess(music[c])
        /\ music[c].op = "search"
        /\ Len(music[c].result.value[1]) = 2

\* C5 (as claimed): get_audio_bytes on a Connected client whose server
\* advertises more than max_size bytes (on every attempt) ends with
\* MusicServiceError and no body read; when the advertised length is absent
\* or at most max_size and the fetch succeeds, the body read is returned.
C5_SizeCeiling ==
    \A c \in DOMAIN music :
        LET m == music[c]
        IN  (m.op = "get_audio_bytes" /\ m.connected0 /\ Finished(m)) =>
                /\ (m.log # <<>> /\ \A i \in 1..Len(m.log) : m.log[i].event = "too_large") =>
                        (m.result.kind = "MusicServiceError" /\ m.reads = 0)
                /\ (m.log # <<>> /\ m.log[Len(m.log)].event = "ok") =>
                        (m.result = [kind |-> "ok", cause |-> "none",
                                     value |-> <<m.last[1].body>>])

Connected(m) == m.session # None

\* every session the instance created and has not closed is the one its
\* handle names
OneSession(m) == m.open = (IF Connected(m) THEN {m.session} ELSE {})

\* C7: under any sequence of connect and disconnect calls the session is a
\* two-state machine: connect on a Connected client changes nothing,
\* connect on a Disconnected one opens one new session and holds it,
\* disconnect on a Disconnected client changes nothing, disconnect on a
\* Connected one closes the session and clears the handle, no other step
\* touches the session, and the open sessions are always exactly the one
\* the handle names (none when Disconnected).
C7_SessionStateMachine ==
    [][\A c \in DOMAIN music :
          LET m == music[c]
              n == music'[c]
          IN  /\ OneSession(n)
              /\ Cardinality(n.open) <= 1
              /\ (Connect(c) /\ Connected(m)) => n = m
              /\ (Connect(c) /\ ~Connected(m)) =>
                    /\ Connected(n) /\ n.session \notin 1..m.created
                    /\ n.created = m.created + 1
              /\ (Disconnect(c) /\ ~Connected(m)) => n = m
              /\ (Disconnect(c) /\ Connected(m)) =>
                    /\ ~Connected(n) /\ n.open = {}
                    /\ n.created = m.created
              /\ ~(Connect(c) \/ Disconnect(c)) =>
                    (n.session = m.session /\ n.open = m.open /\ n.created = m.created)
      ]_vars

\* a client connected for the second time, its first session closed
C7_Witness ==
    \E c \in DOMAIN music :
        /\ music[c].created = 2
        /\ music[c].session = 2
        /\ music[c].open = {2}

\* C9: the tracks search and get_top_hits return are numbered by position:
\* the track at position i (from 0) has index i.
C9_IndexIsPosition ==
    \A c \in DOMAIN music :
        LET m == music[c]
        IN  (m.op \in {"search", "get_top_hits"} /\ m.result.kind = "ok") =>
                \A i \in 1..Len(m.result.value[1]) : m.result.value[1][i].index = i - 1

\* get_top_hits returned two tracks
C9_Witness ==
    \E c \in DOMAIN music :
        /\ music[c].op = "get_top_hits"
        /\ music[c].result.kind = "ok"
        /\ Len(music[c].result.value[1]) = 2

-----------------------------------------------------------------------------
(* Properties of the parse step, checked under ParseSpec.                  *)

\* the exceptions the parse step raises for markup it does not expect
ParseError == {"TypeError", "ValueError"}

WellFormed(item) == item.artist # <<>> /\ item.title # <<>> /\ item.play # <<>>

\* the container is absent, or some item lacks one of its three elements
Malformed(html) ==
    \/ html.playlist = <<>>
    \/ \E i \in 1..Len(html.playlist[1]) : ~WellFormed(html.playlist[1][i])

\* C6: parsing is all-or-nothing: a page without the container, or with an
\* item (at any position) that lacks the performer, the title or the play
\* control, makes the parse raise one of the parse errors, and no track is
\* returned.
C6_ParseAllOrNothing ==
    (parsed # <<>> /\ Malformed(page)) =>
        /\ parsed[1].exc \in ParseError
        /\ parsed[1].tracks = <<>>

\* a parsed page of three items, the second without a title, the others
\* well-formed
C6_Witness ==
    /\ parsed # <<>>
    /\ page.playlist # <<>>
    /\ Len(page.playlist[1]) = 3
    /\ WellFormed(page.playlist[1][1])
    /\ page.playlist[1][2].title = <<>>
    /\ page.playlist[1][2].artist # <<>>
    /\ WellFormed(page.playlist[1][3])
    /\ parsed[1].exc = "ValueError"

-----------------------------------------------------------------------------
(* Properties of build_search_query, checked under QuerySpec.              *)

\* every run of whitespace replaced by one hyphen
RECURSIVE hyphenate_runs(_)
hyphenate_runs(s) ==
    IF s = <<>> THEN <<>>
    ELSE IF Head(s) \in Whitespace THEN <<"-">> \o hyphenate_runs(lstrip(s))
    ELSE <<Head(s)>> \o hyphenate_runs(Tail(s))

\* the reference transform: strip what is neither a word character nor
\* whitespace, trim, lower-case, hyphenate the whitespace runs
reference_slug(kw) == hyphenate_runs(lower(strip(re_sub_nonword(kw))))

\* the url for the reference slug (encoded for a domain name where the
\* slug is not ASCII, as the code encodes it)
reference_url(kw) ==
    LET slug == reference_slug(kw)
        enc == idna_encode(slug)
    IN  <<"https://">> \o (IF enc.exc = "UnicodeError" THEN slug ELSE enc.value)
            \o <<".", BASE_URL>>

DaftPunk == <<"D", "a", "f", "t", " ", "P", "u", "n", "k">>

\* C10 (as claimed): build_search_query returns the url of the reference
\* slug for every keyword, so that no whitespace character is left in it;
\* "Daft Punk" gives the slug daft-punk and a keyword of punctuation alone
\* the empty slug.
C10_QueryIsReference ==
    /\ query_slug(DaftPunk) = <<"d", "a", "f", "t", "-", "p", "u", "n", "k">>
    /\ build_search_query(<<"!", ".", "!">>) = <<"https://", ".", BASE_URL>>
    /\ query_url # <<>> =>
          /\ query_url[1] = reference_url(keyword)
          /\ \A i \in 1..Len(query_url[1]) : query_url[1][i] \notin Whitespace

-----------------------------------------------------------------------------
(* HandlerSpec: the chat handlers of handlers.py.  Each task runs one      *)
(* handler for one update; the tasks run concurrently and switch only      *)
(* where a handler awaits the network.  The Music instance a handler       *)
(* creates is music[t]; search_history is the dict the handlers share.     *)

Tasks == 1..MaxTasks

\* get_search_results_keyboard shows the first 10 tracks
keyboard_limit == 10

\* raised is the exception that left the handler for the dispatcher
NewTask ==
    [handler |-> "none", pc |-> "new", text |-> <<>>, button |-> <<>>,
     answers |-> <<>>, search_id |-> <<>>, raised |-> "none"]

\* message.text of the updates that reach search_handler: no text, a text
\* too short once stripped, and a query
SampleTexts == { <<>>, << <<"a", " ">> >>, << <<" ", "D", "a">> >> }

\* a button of a keyboard sent before the process was started
StaleButtons == { [search_id |-> 0, i |-> 1] }

\* a page of one item more than a keyboard shows
LongPage == [playlist |-> << [i \in 1..(keyboard_limit + 1) |-> GoodItem] >>]

HandlerPageResponses ==
    { Response("timeout", 0, NoPage, <<>>, FALSE, ""),
      Response("ok", 200, NoPage, <<>>, TRUE, ""),
      Response("ok", 200, [playlist |-> << <<>> >>], <<>>, TRUE, ""),
      Response("ok", 200, [playlist |-> << <<GoodItem>> >>], <<>>, TRUE, ""),
      Response("ok", 200, LongPage, <<>>, TRUE, "") }

HandlerAudioResponses ==
    { Response("timeout", 0, NoPage, <<>>, FALSE, ""),
      Response("ok", 200, NoPage, <<60000000>>, TRUE, "audio"),
      Response("ok", 200, NoPage, <<1024>>, TRUE, "audio") }

HandlerInit ==
    /\ music = [t \in Tasks |-> Music]
    /\ tasks = [t \in Tasks |-> NewTask]
    /\ search_history = <<>>
    /\ keyboards = {}
    /\ keyword = <<>>
    /\ query_url = <<>>
    /\ page = NoPage
    /\ parsed = <<>>
    /\ original = <<>>
    /\ restored = <<>>
    /\ closing = 0

\* Music.__aenter__
aenter(self) == connect(self)

\* an __aexit__ that leaves the session as it is
aexit_nothing(self) == self

\* Music.__aexit__
aexit(self) == disconnect(self)

\* a key that counts the entries from zero, one short of their number
len_less_one(history) == Max(Cardinality(DOMAIN history), 1) - 1

\* len(search_history)
len(history) == Cardinality(DOMAIN history)

\* search_history[search_id] = tracks
setitem(history, search_id, tracks) ==
    [k \in DOMAIN history \cup {search_id} |->
        IF k = search_id THEN tracks ELSE history[k]]

\* buttons numbered from one
get_search_results_keyboard_from_one(tracks, search_id) ==
    { [search_id |-> search_id, i |-> i] :
        i \in 1..Min(Len(tracks), keyboard_limit) }

\* the callback data of the buttons get_search_results_keyboard builds
get_search_results_keyboard(tracks, search_id) ==
    { [search_id |-> search_id, i |-> i] :
        i \in 0..(Min(Len(tracks), keyboard_limit) - 1) }

answer(task, msg) == [task EXCEPT !.answers = Append(task.answers, msg)]

\* a task takes an update only when the tasks before it have taken theirs
\* (the tasks are interchangeable)
MayStart(t) ==
    /\ tasks[t].pc = "new"
    /\ \A u \in Tasks : u < t => tasks[u].pc # "new"

\* top_hits_handler, up to the first request of get_top_hits
TopHitsStart(t) ==
    /\ MayStart(t)
    /\ tasks' = [tasks EXCEPT ![t] = [@ EXCEPT !.handler = "top_hits", !.pc = "call"]]
    /\ music' = [music EXCEPT ![t] = get_top_hits(aenter(Music))]
    /\ UNCHANGED <<search_history, keyboards, pure, shared_vars>>

\* search_handler, up to the first request of search
SearchStart(t) ==
    /\ MayStart(t)
    /\ \E text \in SampleTexts :
          LET task == [tasks[t] EXCEPT !.handler = "search", !.text = text]
          IN  IF text = <<>>
              THEN /\ tasks' = [tasks EXCEPT ![t] = [task EXCEPT !.pc = "done"]]
                   /\ UNCHANGED music
              ELSE IF Len(strip(text[1])) < 2
              THEN /\ tasks' = [tasks EXCEPT ![t] =
                                  [answer(task, "too_short") EXCEPT !.pc = "done"]]
                   /\ UNCHANGED music
              ELSE /\ tasks' = [tasks EXCEPT ![t] =
                                  [answer(task, "searching") EXCEPT !.pc = "call"]]
                   /\ music' = [music EXCEPT ![t] = search(aenter(Music), strip(text[1]))]
    /\ UNCHANGED <<search_history, keyboards, pure, shared_vars>>

\* the buttons a user presses: the first and the last one of each keyboard
\* that was sent, and a button kept from before the process started
PressedButtons ==
    { b \in keyboards :
        \/ b.i = 0
        \/ \A c \in keyboards : c.search_id = b.search_id => c.i <= b.i }
        \cup StaleButtons

\* track_callback_handler and send_track, up to the first request of
\* get_audio_bytes
TrackStart(t) ==
    /\ MayStart(t)
    /\ \E button \in PressedButtons :
          LET task == [tasks[t] EXCEPT !.handler = "track", !.button = <<button>>]
          IN  IF button.search_id \notin DOMAIN search_history
              THEN /\ tasks' = [tasks EXCEPT ![t] =
                                  [answer(task, "expired") EXCEPT !.pc = "done"]]
                   /\ UNCHANGED music
              ELSE IF button.i >= Len(search_history[button.search_id])
              THEN \* tracks[track_index] raises IndexError
                   /\ tasks' = [tasks EXCEPT ![t] =
                                  [answer(task, "callback_error") EXCEPT !.pc = "done"]]
                   /\ UNCHANGED music
              ELSE /\ tasks' = [tasks EXCEPT ![t] =
                                  [answer(task, "downloading") EXCEPT !.pc = "call"]]
                   /\ music' = [music EXCEPT ![t] =
                          get_audio_bytes(aenter(Music),
                                          search_history[button.search_id][button.i + 1])]
    /\ UNCHANGED <<search_history, keyboards, pure, shared_vars>>

\* the site as one call of a handler sees it: a request that follows a
\* failed one fails in the same way or succeeds (self is the client before
\* the attempt, next the client after it)
SameFailure(self, next) ==
    IF self.log = <<>> THEN TRUE
    ELSE next.log[Len(next.log)].event \in {"ok", self.log[Len(self.log)].event}

\* the response to the request in flight arrives
HandlerAttempt(t) ==
    /\ tasks[t].pc = "call"
    /\ music[t].pc = "attempt"
    /\ \E resp \in (IF music[t].op = "get_audio_bytes"
                    THEN HandlerAudioResponses ELSE HandlerPageResponses) :
          LET next == attempt_once(music[t], resp)
          IN  /\ SameFailure(music[t], next)
              /\ music' = [music EXCEPT ![t] = next]
    /\ UNCHANGED <<pure, handler_vars, shared_vars>>

\* the backoff wait is over
HandlerSleep(t) ==
    /\ tasks[t].pc = "call"
    /\ music[t].pc = "sleep"
    /\ music' = [music EXCEPT ![t] = sleep(@)]
    /\ UNCHANGED <<pure, handler_vars, shared_vars>>

\* the classes `except Exception` catches, among those that can be raised
ExceptionClasses ==
    {"RetryError", "MusicServiceError", "TypeError", "ValueError", "RuntimeError",
     "IndexError"}

\* an `except MusicServiceError` in place of `except Exception`
caught_service_only(kind) == kind = "MusicServiceError"

\* `except Exception as e` of the three handlers
caught(kind) == kind \in ExceptionClasses

\* the exception a failed call of the client raises into the handler: its
\* class, the exception of the last attempt and the message of that one
exception(self) ==
    [kind |-> self.result.kind, cause |-> self.result.cause,
     message |-> self.log[Len(self.log)].event]

\* a notice that shows the user the message of the exception
failure_notice_with_cause(handler, e) == e.message

\* the text the except branch of a handler sends for the exception e
failure_notice(handler, e) ==
    CASE handler = "top_hits" -> "top_hits_error"
      [] handler = "search" -> "search_error"
      [] OTHER -> "track_error"

\* a handler that stores its result before looking whether it is empty
stores_any(handler, result) ==
    result.kind = "ok" /\ handler \in {"top_hits", "search"}

\* whether top_hits_handler / search_handler reach the lines that store
\* the result of the client call
stores(handler, result) ==
    /\ result.kind = "ok"
    /\ handler \in {"top_hits", "search"}
    /\ result.value[1] # <<>>

\* the call of the client has returned or raised: the `async with` block is
\* left through __aexit__ and the handler runs to its end
HandlerFinish(t) ==
    /\ tasks[t].pc = "call"
    /\ music[t].pc = "idle"
    /\ music' = [music EXCEPT ![t] = aexit(@)]
    /\ LET task == [tasks[t] EXCEPT !.pc = "done"]
           result == music[t].result
           stored == stores(task.handler, result)
           search_id == len(search_history)
       IN  /\ tasks' = [tasks EXCEPT ![t] =
                 IF result.kind # "ok"
                 THEN IF caught(result.kind)
                      THEN answer(task, failure_notice(task.handler, exception(music[t])))
                      ELSE [task EXCEPT !.raised = result.kind]
                 ELSE IF task.handler = "track" THEN answer(task, "audio")
                 ELSE IF ~stored
                 THEN answer(task, IF task.handler = "top_hits"
                                   THEN "top_hits_failed" ELSE "not_found")
                 ELSE [answer(task, IF task.handler = "top_hits"
                                    THEN "top_hits" ELSE "found")
                          EXCEPT !.search_id = <<search_id>>]]
           /\ search_history' =
                 IF stored THEN setitem(search_history, search_id, result.value[1])
                 ELSE search_history
           /\ keyboards' =
                 IF stored
                 THEN keyboards \cup get_search_results_keyboard(result.value[1], search_id)
                 ELSE keyboards
    /\ UNCHANGED <<pure, shared_vars>>

HandlerNext ==
    \E t \in Tasks :
        \/ TopHitsStart(t)
        \/ SearchStart(t)
        \/ TrackStart(t)
        \/ HandlerAttempt(t)
        \/ HandlerSleep(t)
        \/ HandlerFinish(t)

HandlerSpec == HandlerInit /\ [][HandlerNext]_vars

\* C8: whichever of the three handlers a task runs, and whether the call of
\* the client returned or raised after its retries, once the task has left
\* its `async with` block its client is Disconnected and every session the
\* client created is closed; so no session is open once all tasks are done.
C8_ScopedDisconnect ==
    \A t \in DOMAIN tasks :
        tasks[t].pc = "done" => (music[t].session = None /\ music[t].open = {})

\* all tasks done, of which a top-hits request whose call returned and a
\* download whose call raised after three attempts: each opened one session
\* and closed it
C8_Witness ==
    /\ \A t \in DOMAIN tasks : tasks[t].pc = "done"
    /\ \E t \in DOMAIN tasks :
          /\ tasks[t].handler = "top_hits"
          /\ music[t].result.kind = "ok"
          /\ music[t].created = 1 /\ music[t].open = {}
    /\ \E t \in DOMAIN tasks :
          /\ tasks[t].handler = "track"
          /\ music[t].result.kind = "RetryError"
          /\ music[t].created = 1 /\ music[t].open = {}

\* the tasks that stored a result set
Storing(ts) == { t \in DOMAIN ts : ts[t].search_id # <<>> }

\* C15: under every interleaving of the handlers, a step that stores a result
\* set keeps every entry of search_history as it was, gives the new entry a
\* key greater than every key in use, leaves the tasks that stored with keys
\* distinct from one another, and leaves the keys of search_history exactly
\* 0 .. n-1 for the n result sets stored.
C15_AtomicKeyAssignment ==
    [][ /\ \A k \in DOMAIN search_history :
              k \in DOMAIN search_history' /\ search_history'[k] = search_history[k]
        /\ \A k \in DOMAIN search_history' \ DOMAIN search_history :
              \A j \in DOMAIN search_history : j < k
        /\ \A t, u \in Storing(tasks') :
              t # u => tasks'[t].search_id # tasks'[u].search_id
        /\ \A t \in Storing(tasks') :
              search_history'[tasks'[t].search_id[1]] = music'[t].result.value[1]
        /\ DOMAIN search_history' = 0..(Cardinality(Storing(tasks')) - 1)
      ]_vars

\* two requests ran interleaved and both stored: the one that started second
\* finished first and took key 0, the other took key 1
C15_Witness ==
    /\ tasks[1].search_id = <<1>> /\ tasks[2].search_id = <<0>>
    /\ DOMAIN search_history = {0, 1}
    /\ music[1].attempt > 1

\* the texts the except branches of the handlers send
FailureNotices == {"top_hits_error", "search_error", "track_error"}

\* a task whose call of the client raised
Failed(t) == tasks[t].pc = "done" /\ music[t].result.kind \notin {"ok", "none"}

\* C16: no exception of the client leaves a handler: a task whose call of
\* the client raised (whatever the exception of the last attempt was) has
\* ended, has sent the failure notice of its handler as its last message and
\* has raised nothing to the dispatcher.
C16_NoFailureEscapes ==
    \A t \in DOMAIN tasks :
        /\ tasks[t].raised = "none"
        /\ Failed(t) =>
              /\ tasks[t].answers # <<>>
              /\ tasks[t].answers[Len(tasks[t].answers)] \in FailureNotices

\* a search whose page could not be parsed three times (RetryError over a
\* TypeError) and a download that timed out three times (RetryError over a
\* MusicServiceError): both ended with the notice of their handler
C16_Witness ==
    \E t, u \in DOMAIN tasks :
        /\ Failed(t) /\ tasks[t].handler = "search"
        /\ music[t].result = [kind |-> "RetryError", cause |-> "TypeError", value |-> <<>>]
        /\ tasks[t].answers = <<"searching", "search_error">>
        /\ Failed(u) /\ tasks[u].handler = "top_hits"
        /\ music[u].result.cause = "MusicServiceError"
        /\ tasks[u].answers = <<"top_hits_error">>
        /\ tasks[t].raised = "none" /\ tasks[u].raised = "none"

C18_ButtonsStayValid ==
    /\ \A b \in keyboards :
          /\ b.search_id \in DOMAIN search_history
          /\ 0 <= b.i
          /\ b.i < Min(keyboard_limit, Len(search_history[b.search_id]))
    /\ \A t \in DOMAIN tasks :
          ( /\ tasks[t].handler = "track"
            /\ tasks[t].button # <<>>
            /\ tasks[t].button[1] \in keyboards \ StaleButtons )
          => /\ tasks[t].answers # <<>>
             /\ tasks[t].answers[1] = "downloading"

\* a result set of eleven tracks got a keyboard of ten buttons, and the press
\* of the tenth one sent the audio of the tenth track
C18_Witness ==
    \E t \in DOMAIN tasks :
        /\ tasks[t].handler = "track"
        /\ tasks[t].button # <<>>
        /\ tasks[t].button[1] \in keyboards
        /\ tasks[t].button[1].i = keyboard_limit - 1
        /\ Len(search_history[tasks[t].button[1].search_id]) = keyboard_limit + 1
        /\ Cardinality({ b \in keyboards :
                            b.search_id = tasks[t].button[1].search_id }) = keyboard_limit
        /\ tasks[t].answers = <<"downloading", "audio">>
        /\ music[t].arg[1].index = keyboard_limit - 1

\* C19: search_history changes only in the step that ends a top-hits or
\* search request whose call of the client returned a result set that is not
\* empty; every other step (a call that raised, an empty result set, a query
\* too short, every step of a download) leaves it as it was.
C19_CacheFrame ==
    [][ search_history' # search_history =>
            \E t \in DOMAIN tasks :
                /\ tasks[t].pc = "call" /\ tasks'[t].pc = "done"
                /\ tasks[t].handler \in {"top_hits", "search"}
                /\ music[t].result.kind = "ok"
                /\ music[t].result.value[1] # <<>>
                /\ tasks'[t].search_id # <<>>
      ]_vars

\* both tasks are done, a search whose call raised after three attempts and a
\* top-hits request that got an empty list, and nothing is stored
C19_Witness ==
    /\ \A t \in DOMAIN tasks : tasks[t].pc = "done"
    /\ \E t, u \in DOMAIN tasks :
          /\ tasks[t].handler = "search" /\ Failed(t)
          /\ tasks[u].handler = "top_hits"
          /\ music[u].result.kind = "ok" /\ music[u].result.value[1] = <<>>
          /\ tasks[u].answers = <<"top_hits_failed">>
    /\ search_history = <<>>
    /\ keyboards = {}

-----------------------------------------------------------------------------
(* DictSpec: Track.from_dict applied to the field mapping of a Track.      *)

\* the Tracks of at most MaxItems + 1 positions over the sample texts; the
\* name is a field of its own, which from_dict does not derive
SampleNames == { <<"a", " ", "-", " ", "B">>, <<"x">> }
DictTracks ==
    { Track(i, n, t, pf, u) :
        i \in 0..MaxItems, n \in SampleNames, t \in {<<"B">>, <<>>},
        pf \in {<<"a">>, <<"B">>}, u \in AudioUrls \cup {""} }

\* the mapping of a Track's own fields (dataclasses.asdict)
asdict(t) ==
    [k \in {"index", "name", "title", "performer", "audio_url"} |-> t[k]]

DictInit ==
    /\ original \in {<<t>> : t \in DictTracks}
    /\ restored = <<>>
    /\ music = NoClients
    /\ keyword = <<>>
    /\ query_url = <<>>
    /\ page = [playlist |-> <<>>]
    /\ parsed = <<>>
    /\ tasks = <<>>
    /\ search_history = <<>>
    /\ keyboards = {}
    /\ closing = 0

FromDict ==
    /\ restored = <<>>
    /\ restored' = <<from_dict(asdict(original[1]))>>
    /\ UNCHANGED <<original, music, keyword, query_url, page, parsed, handler_vars,
                   shared_vars>>

DictSpec == DictInit /\ [][FromDict]_vars

\* C11: from_dict applied to the mapping of a Track's own fields gives a
\* Track equal to it in every field.
C11_FromDictRoundTrip ==
    restored # <<>> =>
        /\ restored[1].index = original[1].index
        /\ restored[1].name = original[1].name
        /\ restored[1].title = original[1].title
        /\ restored[1].performer = original[1].performer
        /\ restored[1].audio_url = original[1].audio_url
        /\ restored[1] = original[1]

\* a Track at a position past the first, with an empty title and no audio
\* url, has been rebuilt
C11_Witness ==
    /\ restored # <<>>
    /\ original[1].index > 0
    /\ original[1].title = <<>>
    /\ original[1].performer # <<>>
    /\ original[1].audio_url = ""

-----------------------------------------------------------------------------
(* Properties of the retry policy, checked under Spec.                     *)

\* C12: a call makes at most 3 attempts and sends at most 3 requests; the
\* waits between attempts start at 1, double and never exceed 5 (the policy
\* gives 1, 2, 4, 5, 5 for attempts 1 to 5); once the third attempt has
\* failed the call has ended with a failure for its caller.
C12_AtMostThreeAttempts ==
    /\ <<wait_exponential(1), wait_exponential(2), wait_exponential(3),
         wait_exponential(4), wait_exponential(5)>> = <<1, 2, 4, 5, 5>>
    /\ \A c \in DOMAIN music :
          LET m == music[c]
          IN  /\ m.attempt <= 3 /\ Len(m.log) <= 3 /\ m.requests <= 3
              /\ m.requests <= Len(m.log)
              /\ Len(m.waits) <= 2
              /\ \A i \in 1..Len(m.waits) :
                    /\ m.waits[i] <= 5
                    /\ m.waits[i] = IF i = 1 THEN 1 ELSE 2 * m.waits[i - 1]
              /\ m.pc = "attempt" => (Len(m.log) = m.attempt - 1 /\ Len(m.waits) = Len(m.log))
              /\ (Len(m.log) = 3 /\ m.log[3].exc # "none") =>
                    (m.pc = "idle" /\ m.result.kind \notin {"ok", "none"})

\* a call that ended after three requests, each of which failed
C12_Witness ==
    \E c \in DOMAIN music :
        /\ Finished(music[c])
        /\ Len(music[c].log) = 3 /\ AllAttemptsFailed(music[c])
        /\ music[c].requests = 3
        /\ music[c].waits = <<1, 2>>
        /\ music[c].result.kind = "RetryError"

\* C13 (as claimed): a get_audio_bytes call whose first attempt finds the
\* payload over the ceiling ends there, after exactly one request and no
\* wait; a get_audio_bytes or get_top_hits call on a client with no session
\* ends on its first attempt, with no request and no wait.
C13_OnlyNetworkErrorsRetried ==
    \A c \in DOMAIN music :
        LET m == music[c]
        IN  /\ (m.log # <<>> /\ m.log[1].event = "too_large") =>
                  (m.pc = "idle" /\ Len(m.log) = 1 /\ m.requests = 1 /\ m.waits = <<>>)
            /\ (m.log # <<>> /\ m.log[1].event = "no_session") =>
                  (m.pc = "idle" /\ Len(m.log) = 1 /\ m.requests = 0 /\ m.waits = <<>>)

\* the attempts of the call on m that fetched a page and failed to parse it
ParseFailures(m) == {i \in 1..Len(m.log) : m.log[i].event = "parse"}

\* C14: in search and get_top_hits an attempt that fetched the page and
\* failed to parse it is retried like any other failed attempt: it has sent
\* its request, a wait follows unless it was the third attempt, the waits
\* are the same 1 and 2, the page is fetched again by the next attempt, a
\* later attempt that parses its page ends the call with that page's
\* tracks, and three failures end it with the failure of the retries.
C14_ParseFailureRetried ==
    \A c \in DOMAIN music :
        LET m == music[c]
            n == Len(m.log)
        IN  ParseFailures(m) # {} =>
                /\ m.op \in {"search", "get_top_hits"}
                /\ m.requests = n
                /\ (m.log[n].event = "parse" /\ n < 3) =>
                      (m.pc \in {"sleep", "attempt"} /\ m.result.kind = "none")
                /\ m.pc = "attempt" => m.attempt = n + 1
                /\ m.pc = "sleep" => m.waits = SubSeq(<<1, 2>>, 1, n - 1)
                /\ m.pc = "attempt" => m.waits = SubSeq(<<1, 2>>, 1, n)
                /\ (m.log[n].exc = "none") =>
                      /\ m.pc = "idle"
                      /\ m.result = [kind |-> "ok", cause |-> "none",
                                     value |-> <<parse_html(m.last[1].page).tracks>>]
                /\ (n = 3 /\ m.log[n].exc # "none") =>
                      (m.pc = "idle" /\ m.result.kind = "RetryError")

\* a search whose first two pages did not parse and whose third did
C14_Witness ==
    \E c \in DOMAIN music :
        /\ music[c].op = "search"
        /\ Finished(music[c])
        /\ ParseFailures(music[c]) = {1, 2}
        /\ Len(music[c].log) = 3
        /\ music[c].result.kind = "ok"
        /\ Len(music[c].result.value[1]) = 2
        /\ music[c].requests = 3

-----------------------------------------------------------------------------
(* SharedSpec: one Music instance used by several tasks at once.  A call   *)
(* of search, get_top_hits or get_audio_bytes is in progress while other   *)
(* tasks call connect and disconnect.  close() of the session marks the    *)
(* session closed and then either returns at once or suspends until the    *)
(* connections are released; disconnect clears the handle only after it.   *)

\* the disconnect calls suspended in close() at one time
MaxClosing == 1

SharedClients == {1}

SharedInit == Init

SharedConnect(c) ==
    /\ music[c].session = None
    /\ music[c].created < MaxSessions
    /\ music' = [music EXCEPT ![c] = connect(@)]
    /\ UNCHANGED <<pure, handler_vars, shared_vars>>

\* a disconnect whose close() does not suspend (always so when the session
\* is closed already)
SharedDisconnect(c) ==
    /\ music[c].session # None
    /\ music' = [music EXCEPT ![c] = disconnect(@)]
    /\ UNCHANGED <<pure, handler_vars, shared_vars>>

\* disconnect up to the point where close() suspends: the session is closed
\* and the handle still set
DisconnectSuspend(c) ==
    /\ music[c].session # None
    /\ music[c].session \in music[c].open
    /\ closing < MaxClosing
    /\ music' = [music EXCEPT ![c] = session_close(@)]
    /\ closing' = closing + 1
    /\ UNCHANGED <<pure, handler_vars>>

\* close() returns to a suspended disconnect, which clears the handle
DisconnectResume(c) ==
    /\ closing > 0
    /\ music' = [music EXCEPT ![c] = session_clear(@)]
    /\ closing' = closing - 1
    /\ UNCHANGED <<pure, handler_vars>>

SharedCall(c) ==
    /\ Idle(c)
    /\ \/ \E kw \in SampleKeywords : music' = [music EXCEPT ![c] = search(@, kw)]
       \/ music' = [music EXCEPT ![c] = get_top_hits(@)]
       \/ \E track \in SampleTracks :
             music' = [music EXCEPT ![c] = get_audio_bytes(@, track)]
    /\ UNCHANGED <<pure, handler_vars, shared_vars>>

SharedAttempt(c) ==
    /\ music[c].pc = "attempt"
    /\ \E resp \in (IF music[c].op = "get_audio_bytes"
                    THEN HandlerAudioResponses ELSE HandlerPageResponses) :
          LET next == attempt_once(music[c], resp)
          IN  /\ SameFailure(music[c], next)
              /\ music' = [music EXCEPT ![c] = next]
    /\ UNCHANGED <<pure, handler_vars, shared_vars>>

SharedSleep(c) ==
    /\ music[c].pc = "sleep"
    /\ music' = [music EXCEPT ![c] = sleep(@)]
    /\ UNCHANGED <<pure, handler_vars, shared_vars>>

SharedNext ==
    \E c \in SharedClients :
        \/ SharedConnect(c)
        \/ SharedDisconnect(c)
        \/ DisconnectSuspend(c)
        \/ DisconnectResume(c)
        \/ SharedCall(c)
        \/ SharedAttempt(c)
        \/ SharedSleep(c)

SharedSpec == SharedInit /\ [][SharedNext]_vars

\* an attempt of the call in progress found the session closed
HeldClosedSession(m) == \E i \in DOMAIN m.log : m.log[i].event = "session_closed"

\* C20 as stated: whenever the handle of the instance is set its session is
\* open, and no attempt that passed the session check found it closed.
C20_NonNullSessionIsOpen ==
    \A c \in DOMAIN music :
        /\ music[c].session # None => music[c].session \in music[c].open
        /\ ~HeldClosedSession(music[c])

\* C20, amended: whenever no disconnect is suspended in close(), a handle
\* that is set names an open session.
C20_OpenUnlessClosing ==
    \A c \in DOMAIN music :
        (closing = 0 /\ music[c].session # None)
            => music[c].session \in music[c].open

\* a call ran while a disconnect was suspended and one of its attempts found
\* the session closed; the disconnect has since resumed, connect has opened
\* the second session, and the handle names it
C20_Witness ==
    \E c \in DOMAIN music :
        /\ closing = 0
        /\ music[c].session = 2
        /\ music[c].open = {2}
        /\ HeldClosedSession(music[c])

=============================================================================
